---- MODULE Spec2Model ----
(***************************************************************************)
(* Model of resume_builder.py: the breadth-first traversal of an Obsidian  *)
(* vault (parse_obsidian_vault), the single request of                     *)
(* generate_resume_suggestions and the sequencing of main.                 *)
(*                                                                         *)
(* Strings that name notes are modelled as sequences of tokens: a path     *)
(* separator "/", the extension ".md", and directory or note stems.  All   *)
(* paths are written relative to base_dir, the directory of the master     *)
(* note.  The master note path is either absolute or a bare file name, so  *)
(* that os.path.join(base_dir, master_note_path) is the master note path;  *)
(* in the second case base_dir is "" and os.walk(base_dir) lists nothing.  *)
(*                                                                         *)
(* The file system does not change during a run.  The text of a note is    *)
(* modelled by the sequence of its [[link]] identifiers, the corpus by the *)
(* sequence of its header blocks.  enqueued, skipped and unresolved are    *)
(* history variables: the program does not hold them.                      *)
(***************************************************************************)
EXTENDS Integers, Sequences, FiniteSets, TLC

(* ----------------------------- bounds --------------------------------- *)

\* Total number of [[link]] occurrences in the notes of the vault.
MaxLinks == 2

(* ------------------------- the vault's universe ----------------------- *)

\* The master note, as given on the command line.
master_note_path == <<"R", ".md">>

\* The files a vault may hold: the master note, two notes of the same name
\* in sibling directories, and one more note next to the master note.
CandidateFiles ==
    { <<"R", ".md">>,
      <<"s", "/", "A", ".md">>,
      <<"t", "/", "A", ".md">>,
      <<"B", ".md">> }

\* A fixed enumeration of CandidateFiles, used to lay out the vault in Init.
FileOrder ==
    << <<"R", ".md">>, <<"s", "/", "A", ".md">>, <<"t", "/", "A", ".md">>, <<"B", ".md">> >>

\* The link identifiers that may occur between [[ and ]]: bare names, a
\* name with the extension, and path-qualified names with and without it.
Links ==
    { <<"R">>,
      <<"A">>,
      <<"s", "/", "A">>,
      <<"t", "/", "A", ".md">>,
      <<"B", ".md">> }

\* The orders in which os.walk(base_dir) may list the directories: top-down,
\* base_dir first, sibling directories in the order of the directory scan.
\* When the master note is given as a bare file name, base_dir is "" and
\* os.walk("") lists nothing.
WalkOrders ==
    { <<>>,
      << <<>>, <<"s">>, <<"t">> >>,
      << <<>>, <<"t">>, <<"s">> >> }

\* The outcomes of the one HTTP POST and of decoding its response.
Outcomes == {"ok", "transport_failure", "timeout", "http_error", "malformed"}

\* The value of found_path when no file was found.
None == <<>>

SeqsUpTo(S, n) == UNION { [1..k -> S] : k \in 0..n }

(* ----------------------------- state ---------------------------------- *)

VARIABLES
    files,            \* the paths that exist in the file system
    unreadable,       \* the existing paths that open()/read() fails on
    content,          \* path -> the link identifiers of the file, in textual order
    walk,             \* the directories os.walk(base_dir) yields, in order
    pc,               \* where main is
    vault_content,    \* the corpus: a sequence of header blocks
    notes_to_visit,   \* the work queue
    visited_notes,    \* the canonical names already incorporated
    enqueued,         \* history: every identifier ever put in the queue, in order
    skipped,          \* history: positions of enqueued that were dropped as visited
    unresolved,       \* history: positions of enqueued that resolved to no file
    job_description,  \* "unread", "read"
    requests,         \* number of HTTP requests issued
    response,         \* the position in Responses of what the request met, 0 before it
    suggestions,      \* the result of generate_resume_suggestions, or "none"
    output_file,      \* what resume_suggestions.txt holds, or "none"
    console           \* the suggestions printed to the console, or "none"

fs == <<files, unreadable, content, walk>>
trav == <<vault_content, notes_to_visit, visited_notes, enqueued, skipped, unresolved>>
io == <<job_description, requests, response, suggestions, output_file, console>>
vars == <<files, unreadable, content, walk, pc, vault_content, notes_to_visit,
          visited_notes, enqueued, skipped, unresolved, job_description,
          requests, response, suggestions, output_file, console>>

(* ------------------------- path arithmetic ---------------------------- *)

\* str.endswith('.md')
endswith_md(p) == Len(p) > 0 /\ p[Len(p)] = ".md"

\* Position of the last separator of p, 0 when there is none.
LastSep(p) ==
    LET seps == { i \in 1..Len(p) : p[i] = "/" }
    IN  IF seps = {} THEN 0 ELSE CHOOSE i \in seps : \A j \in seps : j <= i

\* os.path.basename
basename(p) == SubSeq(p, LastSep(p) + 1, Len(p))

\* os.path.join(root, name), root relative to base_dir
join(root, name) == IF root = <<>> THEN name ELSE root \o <<"/">> \o name

\* Faulty variant of current_note_name: the identifier is kept whole, with
\* its directories.
name_as_is(link) == IF endswith_md(link) THEN link ELSE Append(link, ".md")

\* The canonical name of a dequeued identifier.
current_note_name(link) ==
    IF endswith_md(link) THEN basename(link) ELSE Append(basename(link), ".md")

\* Faulty variant of WalkFind: the search goes on after a match, so that the
\* last directory that lists the name wins.
WalkFindLast(name) ==
    LET hits == { i \in 1..Len(walk) : join(walk[i], name) \in files }
    IN  IF hits = {} THEN None
        ELSE join(walk[CHOOSE i \in hits : \A j \in hits : j <= i], name)

\* The search of the directory tree: the first directory of the walk that
\* lists a file of that name.
WalkFind(name) ==
    LET hits == { i \in 1..Len(walk) : join(walk[i], name) \in files }
    IN  IF hits = {} THEN None
        ELSE join(walk[CHOOSE i \in hits : \A j \in hits : i <= j], name)

\* The fallback: the identifier as a path relative to base_dir.
potential_path(link) == IF endswith_md(link) THEN link ELSE Append(link, ".md")

\* found_path after the search and the fallback.
found_path(link) ==
    IF WalkFind(current_note_name(link)) # None
    THEN WalkFind(current_note_name(link))
    ELSE IF potential_path(link) \in files THEN potential_path(link) ELSE None

\* One header block of the corpus: the header names basename(found_path),
\* the body is the file's content.
Block(path) == [note |-> basename(path), path |-> path, links |-> content[path]]

\* Faulty variant of pop0: reads the front without removing it.
pop_peek(q) == [link |-> Head(q), rest |-> q]

\* Faulty variant of pop0: pops the back of the queue, as a stack would.
pop_last(q) == [link |-> q[Len(q)], rest |-> SubSeq(q, 1, Len(q) - 1)]

\* notes_to_visit.pop(0): the identifier at the front, and the queue without it.
pop0(q) == [link |-> Head(q), rest |-> Tail(q)]

\* Faulty variant of is_visited: the guard is inverted.
not_visited(name, visited) == name \notin visited

\* The dedup guard: the canonical name is in visited_notes.
is_visited(name, visited) == name \in visited

\* Faulty variant of add_visited: the name is not recorded.
add_none(visited, name) == visited

\* visited_notes.add(current_note_name)
add_visited(visited, name) == visited \cup {name}

\* Faulty variant of append_links: only the first link is enqueued.
append_first(q, links) == IF links = <<>> THEN q ELSE Append(q, Head(links))

\* Faulty variant of append_links: the links are enqueued last one first.
append_reversed(q, links) ==
    q \o [i \in 1..Len(links) |-> links[Len(links) + 1 - i]]

\* for link in links: notes_to_visit.append(link)
append_links(q, links) == q \o links

\* Faulty variant of continue_visited: the loop is left, as by `break`.
break_visited(rest) == <<>>

\* The queue after `continue` on a visited name: the loop goes on with the rest.
continue_visited(rest) == rest

\* Faulty variant of continue_not_found: the loop is left, as by `break`.
break_not_found(rest) == <<>>

\* The queue after `continue` on an identifier that resolved to no file.
continue_not_found(rest) == rest

\* Faulty variant of after_read_error: the failure ends the traversal.
break_read_error(rest) == <<>>

\* The queue after the except clause of a failed read: the loop goes on.
after_read_error(rest) == rest

\* Faulty variant of visited_on_error: the name is marked before the read.
mark_on_error(visited, name) == visited \cup {name}

\* The visited set after the except clause of a failed read: the add of
\* line 67 was not reached.
visited_on_error(visited, name) == visited

\* The position in enqueued of the identifier at the front of the queue.
Front == Len(enqueued) - Len(notes_to_visit) + 1

(* ----------------------------- Init ----------------------------------- *)

Init ==
    /\ files \in SUBSET CandidateFiles
    /\ unreadable \in SUBSET files
    /\ walk \in WalkOrders
    /\ \E flat \in SeqsUpTo(Links, MaxLinks) :
       \E c1 \in 0..Len(flat) : \E c2 \in c1..Len(flat) : \E c3 \in c2..Len(flat) :
          LET cut == <<0, c1, c2, c3, Len(flat)>>
              body(i) == SubSeq(flat, cut[i] + 1, cut[i + 1])
          IN  /\ \A i \in 1..4 :
                    FileOrder[i] \notin (files \ unreadable) => body(i) = <<>>
              /\ content = [p \in CandidateFiles |->
                               body(CHOOSE i \in 1..4 : FileOrder[i] = p)]
    /\ pc = "parse"
    /\ vault_content = <<>>
    /\ notes_to_visit = <<master_note_path>>
    /\ visited_notes = {}
    /\ enqueued = <<master_note_path>>
    /\ skipped = {}
    /\ unresolved = {}
    /\ job_description = "unread"
    /\ requests = 0
    /\ response = 0
    /\ suggestions = "none"
    /\ output_file = "none"
    /\ console = "none"

(* -------------------- parse_obsidian_vault: the loop ------------------ *)

\* The dequeued name is already visited: continue.
SkipVisited ==
    /\ pc = "parse"
    /\ notes_to_visit # <<>>
    /\ LET p == pop0(notes_to_visit)
       IN  /\ is_visited(current_note_name(p.link), visited_notes)
           /\ notes_to_visit' = continue_visited(p.rest)
           /\ skipped' = skipped \cup {Front}
    /\ UNCHANGED <<fs, pc, vault_content, visited_notes, enqueued, unresolved, io>>

\* No file was found: warn and continue.
NotFound ==
    /\ pc = "parse"
    /\ notes_to_visit # <<>>
    /\ LET p == pop0(notes_to_visit)
       IN  /\ ~is_visited(current_note_name(p.link), visited_notes)
           /\ found_path(p.link) = None
           /\ notes_to_visit' = continue_not_found(p.rest)
           /\ unresolved' = unresolved \cup {Front}
    /\ UNCHANGED <<fs, pc, vault_content, visited_notes, enqueued, skipped, io>>

\* The file was found and read: append its block, mark it visited, enqueue
\* its links.
ReadNote ==
    /\ pc = "parse"
    /\ notes_to_visit # <<>>
    /\ LET p == pop0(notes_to_visit)
           path == found_path(p.link)
       IN  /\ ~is_visited(current_note_name(p.link), visited_notes)
           /\ path # None
           /\ path \notin unreadable
           /\ vault_content' = Append(vault_content, Block(path))
           /\ visited_notes' = add_visited(visited_notes, current_note_name(p.link))
           /\ notes_to_visit' = append_links(p.rest, content[path])
           /\ enqueued' = enqueued \o SubSeq(notes_to_visit', Len(p.rest) + 1,
                                              Len(notes_to_visit'))
    /\ UNCHANGED <<fs, pc, skipped, unresolved, io>>

\* The file was found but could not be read: report and continue.
ReadError ==
    /\ pc = "parse"
    /\ notes_to_visit # <<>>
    /\ LET p == pop0(notes_to_visit)
           path == found_path(p.link)
       IN  /\ ~is_visited(current_note_name(p.link), visited_notes)
           /\ path # None
           /\ path \in unreadable
           /\ notes_to_visit' = after_read_error(p.rest)
           /\ visited_notes' = visited_on_error(visited_notes,
                                                current_note_name(p.link))
    /\ UNCHANGED <<fs, pc, vault_content, enqueued, skipped, unresolved, io>>

\* parse_obsidian_vault as a function of the vault: the corpus it returns
\* from a queue, a visited set and a corpus, for notes whose links are cont.
RECURSIVE Traverse(_, _, _, _)
Traverse(queue, visited, corpus, cont) ==
    IF queue = <<>> THEN corpus
    ELSE LET p == pop0(queue)
             name == current_note_name(p.link)
             path == found_path(p.link)
         IN  IF is_visited(name, visited)
             THEN Traverse(continue_visited(p.rest), visited, corpus, cont)
             ELSE IF path = None
             THEN Traverse(continue_not_found(p.rest), visited, corpus, cont)
             ELSE IF path \in unreadable
             THEN Traverse(after_read_error(p.rest), visited, corpus, cont)
             ELSE Traverse(append_links(p.rest, cont[path]),
                           add_visited(visited, name),
                           Append(corpus, [note |-> basename(path), path |-> path,
                                           links |-> cont[path]]),
                           cont)

(* ------------------------------- main --------------------------------- *)

\* Faulty variant of is_empty: the test of the corpus is missing.
never_empty(corpus) == FALSE

\* Faulty variant of note_header: no header is written before the content.
no_header(note) == <<>>

\* The header line f"\n\n--- NOTE: {os.path.basename(found_path)} ---\n\n".
note_header(note) == <<"\n\n--- NOTE: ">> \o note \o <<" ---\n\n">>

RECURSIVE LinksText(_)
\* The text of a note: its links between [[ and ]].
LinksText(links) ==
    IF links = <<>> THEN <<>>
    ELSE <<"[[">> \o Head(links) \o <<"]]">> \o LinksText(Tail(links))

RECURSIVE Text(_)
\* The string vault_content: for every block its header, then its content.
Text(corpus) ==
    IF corpus = <<>> THEN <<>>
    ELSE Text(SubSeq(corpus, 1, Len(corpus) - 1))
         \o note_header(corpus[Len(corpus)].note)
         \o LinksText(corpus[Len(corpus)].links)

\* `if not portfolio_context`: the corpus is the empty string.
is_empty(corpus) == Text(corpus) = <<>>

\* The queue is empty: parse_obsidian_vault returns and main tests the corpus.
ParseReturn ==
    /\ pc = "parse"
    /\ notes_to_visit = <<>>
    /\ pc' = IF is_empty(vault_content) THEN "exit_no_portfolio" ELSE "read_job"
    /\ UNCHANGED <<fs, trav, io>>

\* Step 2: the job description is read.
ReadJobDescription ==
    /\ pc = "read_job"
    /\ job_description' = "read"
    /\ pc' = "generate"
    /\ UNCHANGED <<fs, trav, requests, response, suggestions, output_file, console>>

\* Faulty variant of on_job_error: the generic handler does not return.
fall_through(e) == IF e = "FileNotFoundError" THEN "exit_job_not_found" ELSE "generate"

\* Where main goes from the except clauses of step 2: both return.
on_job_error(e) == IF e = "FileNotFoundError" THEN "exit_job_not_found" ELSE "exit_job_error"

\* Step 2 fails: FileNotFoundError or any other exception; main returns.
JobDescriptionError ==
    /\ pc = "read_job"
    /\ \E e \in {"FileNotFoundError", "Exception"} : pc' = on_job_error(e)
    /\ UNCHANGED <<fs, trav, io>>

\* What the POST of line 135 may meet: an exception of requests.post, an
\* HTTP status, a body that is no JSON (response.json() raises, a
\* RequestException or a ValueError by the version of requests), or a JSON
\* body of some shape.
Responses ==
    << [error |-> "ConnectionError", status |-> 0, json_error |-> "none", body |-> <<>>],
       [error |-> "Timeout", status |-> 0, json_error |-> "none", body |-> <<>>],
       [error |-> "none", status |-> 500, json_error |-> "none", body |-> <<>>],
       [error |-> "none", status |-> 200, json_error |-> "RequestException", body |-> <<>>],
       [error |-> "none", status |-> 200, json_error |-> "ValueError", body |-> <<>>],
       [error |-> "none", status |-> 200, json_error |-> "none",
        body |-> [promptFeedback |-> "blocked"]],
       [error |-> "none", status |-> 200, json_error |-> "none",
        body |-> [candidates |-> <<>>]],
       [error |-> "none", status |-> 200, json_error |-> "none",
        body |-> [candidates |-> << [finishReason |-> "SAFETY"] >>]],
       [error |-> "none", status |-> 200, json_error |-> "none",
        body |-> [candidates |-> << [content |-> [role |-> "model"]] >>]],
       [error |-> "none", status |-> 200, json_error |-> "none",
        body |-> [candidates |-> << [content |-> [parts |-> <<>>]] >>]],
       [error |-> "none", status |-> 200, json_error |-> "none",
        body |-> [candidates |-> << [content |-> [parts |-> << [inlineData |-> "png"] >>]] >>]],
       [error |-> "none", status |-> 200, json_error |-> "none",
        body |-> [candidates |->
                    << [content |-> [parts |-> << [text |-> "candidate_text"],
                                                  [text |-> "second_part_text"] >>]],
                       [content |-> [parts |-> << [text |-> "second_candidate_text"] >>]] >>]] >>

\* A return of generate_resume_suggestions.
Return(outcome, value) == [raised |-> FALSE, outcome |-> outcome, value |-> value]

\* Faulty variant of on_exception: only RequestException is caught, any
\* other exception leaves generate_resume_suggestions.
catch_request_only(outcome, class) ==
    IF class = "RequestException"
    THEN Return(outcome, "An error occurred with the API request")
    ELSE [raised |-> TRUE, outcome |-> outcome, value |-> "none"]

\* The two except clauses: RequestException, then every other Exception.
on_exception(outcome, class) ==
    IF class = "RequestException"
    THEN Return(outcome, "An error occurred with the API request")
    ELSE Return(outcome, "An unexpected error occurred")

\* Lines 134-150 for the response r.
generate_resume_suggestions(r) ==
    IF r.error = "ConnectionError" THEN on_exception("transport_failure", "RequestException")
    ELSE IF r.error = "Timeout" THEN on_exception("timeout", "RequestException")
    ELSE IF r.status >= 400 THEN on_exception("http_error", "RequestException")
    ELSE IF r.json_error # "none" THEN on_exception("malformed", r.json_error)
    ELSE LET result == r.body
             no_content == Return("malformed", "Error: Could not extract valid content")
         IN  IF "candidates" \in DOMAIN result /\ result.candidates # <<>>
             THEN LET candidate == result.candidates[1]
                  IN  IF /\ "content" \in DOMAIN candidate
                         /\ "parts" \in DOMAIN candidate.content
                         /\ candidate.content.parts # <<>>
                      THEN IF "text" \in DOMAIN candidate.content.parts[1]
                           THEN Return("ok", candidate.content.parts[1].text)
                           ELSE on_exception("malformed", "KeyError")
                      ELSE no_content
             ELSE no_content

\* Faulty variant of after_request: a failed request is tried again.
retry_on_failure(outcome) == IF outcome = "ok" THEN "write" ELSE "generate"

\* Where main is after generate_resume_suggestions returned: it returns
\* after one attempt whatever the outcome.
after_request(outcome) == "write"

\* Step 3: one POST, whose outcome decides the returned string.  An
\* exception that left generate_resume_suggestions would end main.
GenerateSuggestions ==
    /\ pc = "generate"
    /\ \E i \in DOMAIN Responses :
          LET ret == generate_resume_suggestions(Responses[i])
          IN  /\ requests' = requests + 1
              /\ response' = i
              /\ suggestions' = ret.value
              /\ pc' = IF ret.raised THEN "crashed" ELSE after_request(ret.outcome)
    /\ UNCHANGED <<fs, trav, job_description, output_file, console>>

\* The suggestions are written to resume_suggestions.txt.
WriteOutput ==
    /\ pc = "write"
    /\ output_file' = suggestions
    /\ pc' = "done"
    /\ UNCHANGED <<fs, trav, job_description, requests, response, suggestions, console>>

\* Faulty variant of print_fallback: the failure is reported, the text is not.
report_only(text) == "none"

\* What the except clause of the write prints after its report: the text.
print_fallback(text) == text

\* Writing fails: the suggestions are printed instead.
WriteError ==
    /\ pc = "write"
    /\ console' = print_fallback(suggestions)
    /\ pc' = "done"
    /\ UNCHANGED <<fs, trav, job_description, requests, response, suggestions, output_file>>

\* One iteration of the loop of parse_obsidian_vault, or its return.
ParseNext ==
    \/ SkipVisited
    \/ NotFound
    \/ ReadNote
    \/ ReadError
    \/ ParseReturn

Next ==
    \/ ParseNext
    \/ ReadJobDescription
    \/ JobDescriptionError
    \/ GenerateSuggestions
    \/ WriteOutput
    \/ WriteError

Spec == Init /\ [][Next]_vars

\* parse_obsidian_vault alone, up to its return.  The program is sequential:
\* whenever the loop can take a step, it does.
TraversalSpec == Init /\ [][ParseNext]_vars /\ WF_vars(ParseNext)

\* The whole run of main.  The program is sequential: whenever it can take
\* a step, it does.
FairSpec == Spec /\ WF_vars(Next)

TypeOK ==
    /\ files \subseteq CandidateFiles
    /\ unreadable \subseteq files
    /\ pc \in {"parse", "exit_no_portfolio", "read_job", "exit_job_not_found",
               "exit_job_error", "generate", "write", "done"}
    /\ requests \in 0..1
    /\ response \in 0..Len(Responses)
    /\ pc \in {"write", "done"} => generate_resume_suggestions(Responses[response]).outcome \in Outcomes
    /\ Len(notes_to_visit) <= Len(enqueued)

(* ------------------- the link graph of the vault ---------------------- *)

Range(f) == { f[i] : i \in DOMAIN f }

\* parse_obsidian_vault has returned.
Returned == pc \in {"exit_no_portfolio", "read_job"}

\* The file the master note path resolves to.
RootFile == found_path(master_note_path)

\* The files that resolve and can be read.
Readable == files \ unreadable

\* The files the links of note f resolve to; the links of a file that cannot
\* be read are not known to the traversal.
Succ(f, cont) ==
    IF f \in Readable THEN { found_path(l) : l \in Range(cont[f]) } \ {None} ELSE {}

RECURSIVE Closure(_, _, _)
Closure(S, cont, n) ==
    IF n = 0 THEN S
    ELSE Closure(S \cup UNION { Succ(f, cont) : f \in S }, cont, n - 1)

\* The files reachable from the set S through links.
ReachableFrom(S, cont) == Closure(S, cont, Cardinality(CandidateFiles))

\* The documents reachable from the root and resolvable.
Reachable(cont) == ReachableFrom({RootFile} \ {None}, cont)

\* No reachable document reaches itself.
Acyclic(cont) ==
    \A f \in Reachable(cont) : f \notin ReachableFrom(Succ(f, cont), cont)

\* No two reachable documents have the same base name.
DistinctNames(cont) ==
    \A f, g \in Reachable(cont) : basename(f) = basename(g) => f = g

\* The header names and the source files of a corpus, in order.
Headers(corpus) == [i \in 1..Len(corpus) |-> <<corpus[i].note, corpus[i].path>>]

Notes(corpus) == { corpus[i].note : i \in 1..Len(corpus) }
Paths(corpus) == { corpus[i].path : i \in 1..Len(corpus) }

\* The position in enqueued of the first identifier that resolves to file f.
FirstLinkTo(f) ==
    CHOOSE k \in 1..Len(enqueued) :
        /\ found_path(enqueued[k]) = f
        /\ \A j \in 1..(k - 1) : found_path(enqueued[j]) # f

(* ------------------------------ C1 ------------------------------------ *)

\* C1: in every state of the traversal, whatever the link graph, no two
\* header blocks of the corpus name the same canonical document name.
C1_OneBlockPerName ==
    \A i, j \in 1..Len(vault_content) :
        vault_content[i].note = vault_content[j].note => i = j

\* A name that was linked again after its block was written: the later link
\* was dropped and the corpus has several blocks.
C1_Witness ==
    /\ Returned
    /\ skipped # {}
    /\ Len(vault_content) >= 2

(* ------------------------------ C2 ------------------------------------ *)

\* C2 as stated: for an acyclic link graph whose root was read, on return
\* the corpus holds exactly one entry for every document that is reachable
\* and resolvable.
C2_Original ==
    (Returned /\ Acyclic(content) /\ RootFile \in Readable) =>
        /\ Paths(vault_content) = Reachable(content)
        /\ \A i, j \in 1..Len(vault_content) :
              vault_content[i].path = vault_content[j].path => i = j

\* C2 as amended: for an acyclic link graph in which no two reachable
\* documents share a base name, on return the corpus holds exactly one entry
\* for every document that is reachable, resolvable and readable.
C2_ExactlyReachableReadable ==
    (Returned /\ Acyclic(content) /\ DistinctNames(content)) =>
        /\ Paths(vault_content) = Reachable(content) \cap Readable
        /\ \A i, j \in 1..Len(vault_content) :
              vault_content[i].path = vault_content[j].path => i = j

\* An acyclic vault whose root links twice to one note, by a bare name and
\* by a path-qualified one, and the note is in the corpus.
C2_Witness ==
    /\ Returned
    /\ Acyclic(content)
    /\ DistinctNames(content)
    /\ Len(vault_content) = 2
    /\ \E i, j \in 1..Len(enqueued) :
          /\ i < j
          /\ enqueued[i] # enqueued[j]
          /\ found_path(enqueued[i]) = vault_content[2].path
          /\ found_path(enqueued[j]) = vault_content[2].path

(* ------------------------------ C3 ------------------------------------ *)

\* C3: for every vault, the traversal loop terminates: the queue becomes
\* empty and parse_obsidian_vault returns.
C3_Terminates == <>(Returned /\ notes_to_visit = <<>>)

\* The traversal has returned from a vault with a link back to a visited
\* note and a link that resolved to no file.
C3_Witness ==
    /\ Returned
    /\ notes_to_visit = <<>>
    /\ skipped # {}
    /\ unresolved # {}

(* ------------------------------ C4 ------------------------------------ *)

RECURSIVE Without(_, _, _)
\* The sequence of links without those whose position, counted from base,
\* is in drop.
Without(links, base, drop) ==
    IF links = <<>> THEN <<>>
    ELSE (IF base + 1 \in drop THEN <<>> ELSE <<Head(links)>>)
         \o Without(Tail(links), base + 1, drop)

RECURSIVE Offset(_)
\* The position in enqueued before the links of the k-th block.
Offset(k) == IF k = 1 THEN 1 ELSE Offset(k - 1) + Len(vault_content[k - 1].links)

\* The vault with the link occurrences at the positions drop deleted.
Deleted(drop) ==
    [p \in CandidateFiles |->
        IF \E k \in 1..Len(vault_content) : vault_content[k].path = p
        THEN LET k == CHOOSE k \in 1..Len(vault_content) : vault_content[k].path = p
             IN  Without(content[p], Offset(k), drop)
        ELSE content[p]]

\* C4: the corpus has the header blocks, in the order, of the corpus of the
\* vault without the link occurrences that were dropped as visited, and that
\* vault is acyclic.
C4_SameAsAcyclic ==
    Returned =>
        /\ Acyclic(Deleted(skipped))
        /\ Headers(Traverse(<<master_note_path>>, {}, <<>>, Deleted(skipped)))
              = Headers(vault_content)

\* A cyclic vault has been traversed and links were deleted from it.
C4_Witness ==
    /\ Returned
    /\ ~Acyclic(content)
    /\ skipped # {}
    /\ Len(vault_content) >= 2

(* ------------------------------ C5 ------------------------------------ *)

\* C5: the blocks are in breadth-first discovery order: the root's block is
\* first, and a block precedes another exactly when the first identifier
\* that resolves to its note was enqueued before the other's.
C5_DiscoveryOrder ==
    /\ Len(vault_content) >= 1 => vault_content[1].path = RootFile
    /\ \A i, j \in 1..Len(vault_content) :
          i < j => FirstLinkTo(vault_content[i].path) < FirstLinkTo(vault_content[j].path)

\* The root linked two notes and the corpus is root, first link, second link.
C5_Witness ==
    /\ Returned
    /\ Len(vault_content) = 3
    /\ Len(content[vault_content[1].path]) >= 2
    /\ found_path(content[vault_content[1].path][1]) = vault_content[2].path
    /\ found_path(content[vault_content[1].path][2]) = vault_content[3].path

(* ------------------------------ C6 ------------------------------------ *)

\* The loop is about to dequeue an identifier that is not visited and
\* resolves to no file.
AtUnresolved ==
    /\ pc = "parse"
    /\ notes_to_visit # <<>>
    /\ current_note_name(Head(notes_to_visit)) \notin visited_notes
    /\ found_path(Head(notes_to_visit)) = None

\* C6: a step that dequeues an unresolvable identifier leaves the corpus and
\* the visited set unchanged, only removes that identifier from the queue and
\* stays in the loop; on return the corpus has the header blocks of the
\* corpus of the vault without the unresolvable link occurrences, and the
\* root's block is in it when the root can be read.
C6_UnresolvedOnlySkipped ==
    /\ [][AtUnresolved =>
            /\ vault_content' = vault_content
            /\ visited_notes' = visited_notes
            /\ notes_to_visit' = Tail(notes_to_visit)
            /\ pc' = "parse"]_vars
    /\ [](Returned =>
            /\ Headers(Traverse(<<master_note_path>>, {}, <<>>, Deleted(unresolved)))
                  = Headers(vault_content)
            /\ RootFile \in Readable =>
                  /\ vault_content # <<>>
                  /\ vault_content[1] = Block(RootFile))

\* A link of a note resolved to no file and a note was incorporated from an
\* identifier enqueued after it.
C6_Witness ==
    /\ Returned
    /\ \E k \in unresolved \ {1} :
       \E i \in 2..Len(vault_content) : FirstLinkTo(vault_content[i].path) > k

(* ------------------------------ C7 ------------------------------------ *)

\* The loop is about to dequeue an identifier that is not visited and
\* resolves to a file that cannot be read.
AtUnreadable ==
    /\ pc = "parse"
    /\ notes_to_visit # <<>>
    /\ current_note_name(Head(notes_to_visit)) \notin visited_notes
    /\ found_path(Head(notes_to_visit)) \in unreadable

C8_EmptyCorpusExitsEarly ==
    (pc # "parse" /\ vault_content = <<>>) =>
        /\ pc = "exit_no_portfolio"
        /\ job_description = "unread"
        /\ requests = 0
        /\ suggestions = "none"
        /\ output_file = "none"
        /\ console = "none"

\* main has exited because the corpus was empty.
C8_Witness ==
    /\ pc = "exit_no_portfolio"
    /\ vault_content = <<>>
    /\ notes_to_visit = <<>>

(* ------------------------------ C9 ------------------------------------ *)

\* C9: when step 2 is over and the job description was not read, main has
\* ended at one of its two error returns, with a non-empty corpus, no
\* request issued and no output written.
C9_JobDescriptionErrorEndsRun ==
    (pc \notin {"parse", "exit_no_portfolio", "read_job"} /\ job_description = "unread") =>
        /\ pc \in {"exit_job_not_found", "exit_job_error"}
        /\ vault_content # <<>>
        /\ requests = 0
        /\ suggestions = "none"
        /\ output_file = "none"

\* The vault was parsed, the job description file was missing, main ended.
C9_Witness ==
    /\ pc = "exit_job_not_found"
    /\ vault_content # <<>>
    /\ job_description = "unread"

(* ------------------------------ C10 ----------------------------------- *)

\* C10: at most one request is issued; once it is issued main is past
\* step 3 whatever the outcome, and it was issued with a non-empty corpus
\* and the job description read.
C10_SingleRequest ==
    /\ requests <= 1
    /\ requests = 1 =>
          /\ pc \in {"write", "done"}
          /\ vault_content # <<>>
          /\ job_description = "read"
    /\ pc \in {"write", "done"} => requests = 1

\* The one request failed and main went on to deliver the error string.
C10_Witness ==
    /\ pc = "done"
    /\ requests = 1
    /\ suggestions = "An error occurred with the API request"

(* ------------------------------ C11 ----------------------------------- *)

\* The strings generate_resume_suggestions returns in place of suggestions.
ErrorStrings ==
    { "An error occurred with the API request",
      "An unexpected error occurred",
      "Error: Could not extract valid content" }

\* The response arrived, has a success status and a JSON body whose first
\* candidate has content with parts, the first of them with text.
WellFormed(r) ==
    /\ r.error = "none"
    /\ r.status < 400
    /\ r.json_error = "none"
    /\ "candidates" \in DOMAIN r.body
    /\ Len(r.body.candidates) >= 1
    /\ "content" \in DOMAIN r.body.candidates[1]
    /\ "parts" \in DOMAIN r.body.candidates[1].content
    /\ Len(r.body.candidates[1].content.parts) >= 1
    /\ "text" \in DOMAIN r.body.candidates[1].content.parts[1]

\* C11: no failure leaves generate_resume_suggestions: once the request is
\* made main is at the write step or past it, holding the text of the first
\* part of the first candidate when the response is well formed and an error
\* string otherwise; what is written to the output file is that string,
\* error or not.
C11_FailureReturnedAsString ==
    /\ pc # "crashed"
    /\ response # 0 =>
          /\ pc \in {"write", "done"}
          /\ IF WellFormed(Responses[response])
             THEN suggestions = Responses[response].body.candidates[1].content.parts[1].text
             ELSE suggestions \in ErrorStrings
          /\ output_file \in {"none", suggestions}
          /\ pc = "done" => (output_file = suggestions \/ console = suggestions)

\* The request met HTTP status 500 and the error string is in the output file.
C11_Witness ==
    /\ pc = "done"
    /\ response # 0
    /\ Responses[response].status = 500
    /\ output_file \in ErrorStrings

(* ------------------------------ C12 ----------------------------------- *)

\* generate_resume_suggestions has returned a result to main.
ResultReturned == pc = "write"

\* The result is in the output file or was printed to the console.
Delivered == output_file = suggestions \/ console = suggestions

\* C12: a result returned by generate_resume_suggestions is eventually
\* delivered, to the output file or, when writing fails, to the console.
C12_ResultDelivered == ResultReturned ~> (pc = "done" /\ Delivered)

\* Writing the output file failed and the result was printed instead.
C12_Witness ==
    /\ pc = "done"
    /\ output_file = "none"
    /\ console = suggestions
    /\ suggestions # "none"

(* ------------------------------ C13 ----------------------------------- *)

\* The root resolves, can be read and holds no link.
RootWithoutLinks ==
    /\ RootFile \in Readable
    /\ content[RootFile] = <<>>

\* C13: for a root that resolves, is readable and has no links, the corpus
\* returned is one header block: the header names the root, the body is the
\* root's content, and there is nothing else.
C13_RootAlone ==
    (Returned /\ RootWithoutLinks) =>
        /\ Len(vault_content) = 1
        /\ vault_content[1].note = basename(master_note_path)
        /\ vault_content[1].path = RootFile
        /\ vault_content[1].links = content[RootFile]
        /\ enqueued = <<master_note_path>>

\* A root without links was traversed in a vault that holds other notes.
C13_Witness ==
    /\ Returned
    /\ RootWithoutLinks
    /\ files # {RootFile}
    /\ vault_content # <<>>

(* ------------------------------ C14 ----------------------------------- *)

\* The identifier without its directory components: its longest suffix
\* that holds no separator.
StripDirs(l) ==
    LET starts == { i \in 1..(Len(l) + 1) : \A j \in i..Len(l) : l[j] # "/" }
        first == CHOOSE i \in starts : \A j \in starts : i <= j
    IN  [k \in 1..(Len(l) + 1 - first) |-> l[first + k - 1]]

\* The identifier, with the extension appended when it does not end with it.
WithExtension(l) ==
    IF Len(l) >= 1 /\ l[Len(l)] = ".md" THEN l ELSE l \o <<".md">>

\* The positions of enqueued whose identifier was dequeued and incorporated.
Incorporating ==
    { k \in 1..(Front - 1) :
        /\ k \notin skipped
        /\ k \notin unresolved
        /\ found_path(enqueued[k]) \notin unreadable }

\* C14 as stated: the names the traversal marks visited are the dequeued
\* identifiers as they are, directories included, with the extension
\* appended when absent.
C14_Original ==
    visited_notes = { WithExtension(enqueued[k]) : k \in Incorporating }

\* C14 as amended: the names the traversal marks visited, and tests the
\* dequeued identifiers against, are the identifiers without their directory
\* components, with the extension appended when absent.
C14_CanonicalName ==
    /\ visited_notes = { WithExtension(StripDirs(enqueued[k])) : k \in Incorporating }
    /\ \A k \in skipped :
          WithExtension(StripDirs(enqueued[k])) \in
              { WithExtension(StripDirs(enqueued[j])) : j \in Incorporating \cap 1..(k - 1) }
    /\ \A i \in 1..Len(vault_content) :
          vault_content[i].note = WithExtension(StripDirs(vault_content[i].note))

\* A path-qualified identifier that carries the extension was incorporated,
\* and an identifier without the extension was then dropped as visited.
C14_Witness ==
    /\ \E k \in Incorporating :
          /\ \E i \in 1..Len(enqueued[k]) : enqueued[k][i] = "/"
          /\ enqueued[k][Len(enqueued[k])] = ".md"
    /\ \E k \in skipped : enqueued[k][Len(enqueued[k])] # ".md"

(* ------------------------------ C15 ----------------------------------- *)

\* The positions in the walk of the directories that hold a file of the
\* base name of path p.
DirsWithName(p) == { d \in 1..Len(walk) : join(walk[d], basename(p)) \in files }

\* The identifier whose dequeuing wrote the i-th block: the i-th
\* incorporated position of enqueued.
IdentifierOfBlock(i) ==
    enqueued[CHOOSE k \in Incorporating :
                 Cardinality({ j \in Incorporating : j < k }) = i - 1]

\* C15: the file of every block is the one in the first directory of the
\* walk that holds a file of its name; it is the identifier taken as a
\* relative path only when no directory of the walk holds that name; and no
\* two blocks are of files of the same name.
C15_FirstFoundWins ==
    /\ \A i \in 1..Len(vault_content) :
          LET p == vault_content[i].path
          IN  /\ DirsWithName(p) # {} =>
                    \E d \in DirsWithName(p) :
                        /\ p = join(walk[d], basename(p))
                        /\ \A e \in DirsWithName(p) : d <= e
              /\ DirsWithName(p) = {} =>
                    p = WithExtension(IdentifierOfBlock(i))
    /\ \A i, j \in 1..Len(vault_content) :
          basename(vault_content[i].path) = basename(vault_content[j].path) => i = j

\* Two files named A.md are in the tree, two notes link to them by
\* different path-qualified identifiers, and the one block named A.md is of
\* the file the walk finds first, which is not the file its identifier names.
C15_Witness ==
    /\ Returned
    /\ walk # <<>>
    /\ {<<"s", "/", "A", ".md">>, <<"t", "/", "A", ".md">>} \subseteq Readable
    /\ \E i \in 2..Len(vault_content) :
          /\ vault_content[i].note = <<"A", ".md">>
          /\ vault_content[i].path # WithExtension(IdentifierOfBlock(i))
          /\ \E k \in skipped :
                /\ \E n \in 1..Len(enqueued[k]) : enqueued[k][n] = "/"
                /\ enqueued[k] # IdentifierOfBlock(i)
                /\ WithExtension(StripDirs(enqueued[k])) = <<"A", ".md">>
                /\ enqueued[k] \in Range(vault_content[i].links)

(* ------------------------------ C16 ----------------------------------- *)

\* C16: the corpus returned is the empty string exactly when no document
\* was incorporated, which is exactly when the root does not resolve or
\* cannot be read, and then nothing but the root was ever enqueued; main
\* takes its early exit in that case and in no other.
C16_EmptyIffRootFailed ==
    Returned =>
        /\ (Text(vault_content) = <<>>) <=> (vault_content = <<>>)
        /\ (vault_content = <<>>) <=> (RootFile = None \/ RootFile \in unreadable)
        /\ (vault_content = <<>>) <=> (pc = "exit_no_portfolio")
        /\ vault_content = <<>> =>
              /\ enqueued = <<master_note_path>>
              /\ visited_notes = {}

\* A readable root whose content is empty gave a corpus that is not empty.
C16_Witness ==
    /\ pc = "read_job"
    /\ RootFile \in Readable
    /\ LinksText(content[RootFile]) = <<>>
    /\ Len(vault_content) = 1

(* ------------------------------ C17 ----------------------------------- *)

\* The positions in enqueued of the identifiers whose read failed: dequeued,
\* not dropped as visited, resolved to a file that cannot be read.
ReadFailed ==
    {k \in (1..(Front - 1)) \ (skipped \cup unresolved) :
        found_path(enqueued[k]) \in unreadable}

\* The positions in enqueued of the identifiers that were incorporated.
Incorporated ==
    (1..(Front - 1)) \ (skipped \cup unresolved \cup ReadFailed)

\* C17 as stated: the canonical name of an identifier whose resolution or
\* read failed is never in the visited set.
C17_Original ==
    \A k \in unresolved \cup ReadFailed :
        current_note_name(enqueued[k]) \notin visited_notes

\* C17: the visited set is exactly the set of names with a header block in
\* the corpus; a step changes the one exactly when it changes the other, by
\* the name of the appended block; a step in which the resolution or the
\* read fails leaves the visited set as it is, without the name; an
\* identifier is dropped as visited only when its name has a block, and the
\* name of a failed identifier is visited only through an identifier that
\* resolves to another file.
C17_VisitedIsIncorporated ==
    /\ [](visited_notes = Notes(vault_content))
    /\ [][(visited_notes' # visited_notes \/ vault_content' # vault_content) =>
            /\ Len(vault_content') = Len(vault_content) + 1
            /\ SubSeq(vault_content', 1, Len(vault_content)) = vault_content
            /\ vault_content'[Len(vault_content')].note \notin visited_notes
            /\ visited_notes' = visited_notes
                  \cup {vault_content'[Len(vault_content')].note}]_vars
    /\ [][(AtUnresolved \/ AtUnreadable) =>
            /\ visited_notes' = visited_notes
            /\ current_note_name(Head(notes_to_visit)) \notin visited_notes']_vars
    /\ [](\A j \in skipped :
            current_note_name(enqueued[j]) \in Notes(vault_content))
    /\ [](\A k \in unresolved \cup ReadFailed :
            current_note_name(enqueued[k]) \in visited_notes =>
                \E i \in 1..Len(vault_content) :
                    /\ vault_content[i].note = current_note_name(enqueued[k])
                    /\ vault_content[i].path # found_path(enqueued[k]))

\* An identifier failed and a later identifier of the same canonical name
\* was attempted again and incorporated.
C17_Witness ==
    /\ Returned
    /\ \E k \in unresolved \cup ReadFailed :
       \E j \in Incorporated :
          /\ j > k
          /\ current_note_name(enqueued[j]) = current_note_name(enqueued[k])

(* ------------------------------ C18 ----------------------------------- *)

RECURSIVE LinkOccurrences(_)
\* The link occurrences of the documents of a corpus, in the order of the
\* blocks and, within a block, in textual order, duplicates included.
LinkOccurrences(corpus) ==
    IF corpus = <<>> THEN <<>>
    ELSE LinkOccurrences(SubSeq(corpus, 1, Len(corpus) - 1))
         \o corpus[Len(corpus)].links

\* C18: the identifiers ever enqueued are the root path followed by the
\* link occurrences of the incorporated documents, and the queue is what is
\* left of them; an incorporation replaces the queue by its tail followed by
\* the links of the new document in textual order, and no other step
\* enqueues; every block but the first is of a file that a link of an
\* earlier block resolves to, the first being of the root; on return the
\* number of dequeue steps is one plus the number of link occurrences in
\* the incorporated documents.
C18_QueueIsRootAndLinks ==
    /\ [](/\ enqueued = <<master_note_path>> \o LinkOccurrences(vault_content)
          /\ Front \in 1..(Len(enqueued) + 1)
          /\ notes_to_visit = SubSeq(enqueued, Front, Len(enqueued)))
    /\ [][/\ vault_content' # vault_content =>
                notes_to_visit' = Tail(notes_to_visit)
                    \o content[vault_content'[Len(vault_content')].path]
          /\ (vault_content' = vault_content /\ notes_to_visit' # notes_to_visit) =>
                notes_to_visit' = Tail(notes_to_visit)]_vars
    /\ [](\A i \in 1..Len(vault_content) :
            /\ vault_content[i].links = content[vault_content[i].path]
            /\ i = 1 => vault_content[i].path = found_path(master_note_path)
            /\ i > 1 => \E j \in 1..(i - 1) :
                        \E l \in Range(vault_content[j].links) :
                            found_path(l) = vault_content[i].path)
    /\ [](Returned =>
            /\ notes_to_visit = <<>>
            /\ Front - 1 = 1 + Len(LinkOccurrences(vault_content)))

\* The root links twice to one document, which was incorporated: three
\* identifiers were dequeued.
C18_Witness ==
    /\ Returned
    /\ Len(vault_content) = 2
    /\ Len(vault_content[1].links) = 2
    /\ vault_content[1].links[1] = vault_content[1].links[2]
    /\ Front - 1 = 3
    /\ skipped # {}

====
